---- MODULE Spec2Model ----
(***************************************************************************)
(* Model of Monitoring_dan_Logging/prometheus_exporter.py: the module-level *)
(* model load, collect_metrics() statement by statement, the main loop      *)
(* (collect_metrics(); time.sleep(5)) and the HTTP thread started by        *)
(* start_http_server(8000), which renders the registry on every scrape.     *)
(*                                                                          *)
(* Time is a discrete clock `now`: what time.time() returns, counted from   *)
(* the start of the most recent call of collect_metrics (the code uses only *)
(* differences of clock readings).  Floats are integers: sales in whole     *)
(* units, Fuel_Price in tenths.                                             *)
(***************************************************************************)
EXTENDS Integers, Sequences, FiniteSets, TLC

\* ------------------------------------------------------------------ bounds
\* Cycles (calls of collect_metrics) a run may start.
MaxCycles == 3
\* Longest time one call of collect_metrics may take.
MaxDur == 1
\* ------------------------------------------------------- program constants
HIGH_SALES_THRESHOLD == 150000
SLEEP_SECONDS == 5

\* --------------------------------------------------------------- inputs
\* Temperature is random.uniform(20.0, 80.0) and Fuel_Price is
\* random.uniform(2.5, 4.5), here in tenths: the ends of the two ranges.
Samples ==
    { [Temperature |-> 20, Fuel_Price |-> 25],
      [Temperature |-> 80, Fuel_Price |-> 45] }

\* An element of the array predict returns: a number, or something that
\* f"{x:.2f}" rejects.
Num(v) == [numeric |-> TRUE, val |-> v]
NotNum == [numeric |-> FALSE, val |-> 0]
\* What loaded_model.predict may return: an empty array, an array whose first
\* element is not a number, or a one-element array of predicted sales.
Predictions ==
    { <<>>, <<NotNum>>,
      <<Num(120000)>>, <<Num(HIGH_SALES_THRESHOLD)>>, <<Num(160000)>> }

\* Python's None / an unbound local, and a bound value.
None == <<>>
Some(v) == <<v>>
IsNone(x) == Len(x) = 0
Val(x) == x[1]

VARIABLES
    run_as_main,      \* __name__ == '__main__' (else the module was imported)
    loaded_model,     \* "None" or "Loaded"
    pc,               \* position of the main thread
    listening,        \* start_http_server(8000) has bound the listener
    log_critical,     \* logging.critical(...) of line 96 was written
    now,              \* the clock read by time.time(), counted from the
                      \* start of the most recent call of collect_metrics
    INFERENCE_LATENCY,
    INFERENCE_COUNT,
    INFERENCE_ERROR_COUNT,
    HIGH_SALES_PREDICTION_COUNT,
    df_infer,         \* local of collect_metrics
    start_time,       \* local
    prediction,       \* local
    latency,          \* local
    predicted_sales,  \* local
    started,          \* history: calls of collect_metrics so far
    completed,        \* history: calls that have returned
    cyc,              \* history: facts of the current / last call
    scenario,         \* history: cycles of the three-cycle scenario matched
    rendered,         \* what the last scrape returned
    dirty             \* history: the main thread stepped since the last scrape

regVars == << INFERENCE_LATENCY, INFERENCE_COUNT, INFERENCE_ERROR_COUNT,
              HIGH_SALES_PREDICTION_COUNT >>
localVars == << df_infer, start_time, prediction, latency, predicted_sales >>
startVars == << run_as_main, loaded_model, listening, log_critical >>
cycleVars == << started, completed, cyc, scenario >>
vars == << pc, regVars, localVars, now, startVars, cycleVars, rendered,
           dirty >>

\* The four metric values.
Registry ==
    [ latency |-> INFERENCE_LATENCY,
      total   |-> INFERENCE_COUNT,
      errors  |-> INFERENCE_ERROR_COUNT,
      high    |-> HIGH_SALES_PREDICTION_COUNT ]

\* Positions inside collect_metrics.
InCall ==
    { "check", "gen", "interact", "start", "predict", "end", "setlat", "inc",
      "extract", "format", "compare", "inchigh", "except" }

Init ==
    /\ run_as_main \in BOOLEAN
    /\ loaded_model = "None"
    /\ pc = "load"
    /\ listening = FALSE
    /\ log_critical = FALSE
    /\ now = 0
    /\ INFERENCE_LATENCY = 0
    /\ INFERENCE_COUNT = 0
    /\ INFERENCE_ERROR_COUNT = 0
    /\ HIGH_SALES_PREDICTION_COUNT = 0
    /\ df_infer = None
    /\ start_time = None
    /\ prediction = None
    /\ latency = None
    /\ predicted_sales = None
    /\ started = 0
    /\ completed = 0
    /\ cyc = [ pre |-> Registry, raised |-> "none", predicted |-> None,
               latency |-> None, duration |-> None ]
    /\ scenario = 0
    /\ rendered = None
    /\ dirty = FALSE

\* ------------------------------------------------------- pieces of the code
\* Mutant of Inc: a counter one bit wide, which wraps to 0.
IncWraps(c) == (c + 1) % 2

\* Counter.inc() (lines 34, 69, 76, 80).
Inc(c) == c + 1

\* Mutant of Interaction: the recomputation is lost and the placeholder stays.
InteractionPlaceholder(t, f) == 0

\* df_infer['Temperature'] * df_infer['Fuel_Price'] (line 56).
Interaction(t, f) == t * f

\* latency = end_time - start_time (lines 65-66).
Elapsed(end_time, begin) == end_time - begin

\* Mutant of ExceedsThreshold: the comparison is not strict.
ReachesThreshold(s) == s >= HIGH_SALES_THRESHOLD

\* predicted_sales > HIGH_SALES_THRESHOLD (line 75).
ExceedsThreshold(s) == s > HIGH_SALES_THRESHOLD

\* Mutant of OnRaise: no handler; the exception leaves collect_metrics and the
\* loop, and the main thread ends.
OnRaisePropagates == "crashed"

\* Where an exception raised inside the try block continues: the handler of
\* line 79.
OnRaise == "except"

\* Mutant of ModelIsLoaded: the server is started whatever the load gave.
ModelNotChecked == TRUE

\* `if loaded_model:` (line 87).
ModelIsLoaded == loaded_model = "Loaded"

\* Mutant of SleepUntil: a fixed-rate timer, which fires 5 after the start of
\* the call (the clock's origin), or at once when the call took longer.
SleepUntilFixedRate(t) == IF t > SLEEP_SECONDS THEN t ELSE SLEEP_SECONDS

\* time.sleep(5) (line 94), called at time t, returns at t + 5.
SleepUntil(t) == t + SLEEP_SECONDS

\* The exposition text of the four series (lines 15-18), one line per series:
\* name, type, value.
Render(reg) ==
    << << "model_inference_latency_seconds", "gauge", reg.latency >>,
       << "model_inference_total", "counter", reg.total >>,
       << "model_inference_errors_total", "counter", reg.errors >>,
       << "model_high_sales_predictions_total", "counter", reg.high >> >>

\* The main thread moves to position l.
Goto(l) ==
    /\ pc' = l
    /\ dirty' = TRUE

\* The scenario "success with 120000.0, failure inside predict, success with
\* 160000.0", from the first cycle on: n cycles matched so far, c the cycle
\* that ends; -1 once the run has left the scenario.
ScenarioStep(n, c) ==
    CASE n = 0 /\ c.raised = "none" /\ c.predicted = Some(120000) -> 1
      [] n = 1 /\ c.raised = "predict" -> 2
      [] n = 2 /\ c.raised = "none" /\ c.predicted = Some(160000) -> 3
      [] OTHER -> -1

\* collect_metrics returns: its locals are gone, and control is back in the
\* loop (line 94) or in the importing caller.
Return(c) ==
    /\ Goto(IF run_as_main THEN "ret" ELSE "imported")
    /\ completed' = completed + 1
    /\ scenario' = ScenarioStep(scenario, c)
    /\ cyc' = [c EXCEPT !.duration = Some(now)]
    /\ df_infer' = None
    /\ start_time' = None
    /\ prediction' = None
    /\ latency' = None
    /\ predicted_sales' = None

\* An exception inside the try block (lines 62-77).
Raise(where) ==
    /\ Goto(OnRaise)
    /\ cyc' = [cyc EXCEPT !.raised = where]

\* ------------------------------------------------------------- startup
\* Lines 22-25: mlflow.pyfunc.load_model succeeds.
LoadOk ==
    /\ pc = "load"
    /\ loaded_model' = "Loaded"
    /\ Goto("entry")
    /\ UNCHANGED << run_as_main, listening, log_critical, regVars, localVars,
                    now, cycleVars, rendered >>

\* Lines 22-28: load_model raises; loaded_model stays None.
LoadFail ==
    /\ pc = "load"
    /\ Goto("entry")
    /\ UNCHANGED << startVars, regVars, localVars, now, cycleVars,
                    rendered >>

\* Line 86 false: the module was imported; its caller may call
\* collect_metrics.
Imported ==
    /\ pc = "entry"
    /\ ~run_as_main
    /\ Goto("imported")
    /\ UNCHANGED << startVars, regVars, localVars, now, cycleVars,
                    rendered >>

\* Lines 86-90: the model is loaded, the listener is bound, the loop begins.
MainServe ==
    /\ pc = "entry"
    /\ run_as_main
    /\ ModelIsLoaded
    /\ listening' = TRUE
    /\ Goto("loop")
    /\ UNCHANGED << run_as_main, loaded_model, log_critical, regVars,
                    localVars, now, cycleVars, rendered >>

\* Lines 95-96: no model; log the critical message and fall off the script.
MainExit ==
    /\ pc = "entry"
    /\ run_as_main
    /\ ~ModelIsLoaded
    /\ log_critical' = TRUE
    /\ Goto("exited")
    /\ UNCHANGED << run_as_main, loaded_model, listening, regVars, localVars,
                    now, cycleVars, rendered >>

\* ------------------------------------------------------ collect_metrics
\* Mutant of Call: a timer starts the next call 5 after the start of the last
\* one, also while that one is still running.
CallOnTimer ==
    /\ \/ pc \in {"loop", "imported"}
       \/ pc \in InCall /\ now >= SLEEP_SECONDS
    /\ started < MaxCycles
    /\ Goto("check")
    /\ started' = started + 1
    /\ now' = 0
    /\ cyc' = [ pre |-> Registry, raised |-> "none", predicted |-> None,
                latency |-> None, duration |-> None ]
    /\ UNCHANGED << completed, scenario, startVars, regVars, localVars,
                    rendered >>

\* Line 93 (or a call by the importing module): collect_metrics is entered.
Call ==
    /\ pc \in {"loop", "imported"}
    /\ started < MaxCycles
    /\ Goto("check")
    /\ started' = started + 1
    /\ now' = 0
    /\ cyc' = [ pre |-> Registry, raised |-> "none", predicted |-> None,
                latency |-> None, duration |-> None ]
    /\ UNCHANGED << completed, scenario, startVars, regVars, localVars,
                    rendered >>

\* Mutant of SkipUnavailable: the `return` of line 35 is missing, and the
\* function goes on to build the record.
SkipFallsThrough ==
    /\ pc = "check"
    /\ loaded_model = "None"
    /\ INFERENCE_ERROR_COUNT' = Inc(INFERENCE_ERROR_COUNT)
    /\ \E r \in Samples :
          df_infer' = Some([ Temperature |-> r.Temperature,
                             Fuel_Price |-> r.Fuel_Price,
                             Temperature_Fuel_Interaction |-> 0 ])
    /\ Goto("interact")
    /\ UNCHANGED << INFERENCE_LATENCY, INFERENCE_COUNT,
                    HIGH_SALES_PREDICTION_COUNT, start_time, prediction,
                    latency, predicted_sales, startVars, now, cycleVars,
                    rendered >>

\* Lines 32-35: no model; count an error and return.
SkipUnavailable ==
    /\ pc = "check"
    /\ loaded_model = "None"
    /\ INFERENCE_ERROR_COUNT' = Inc(INFERENCE_ERROR_COUNT)
    /\ Return([cyc EXCEPT !.raised = "unavailable"])
    /\ UNCHANGED << INFERENCE_LATENCY, INFERENCE_COUNT,
                    HIGH_SALES_PREDICTION_COUNT, started, startVars, now,
                    rendered >>

\* Lines 38-53: the dummy record, with the placeholder interaction 0.0.
Generate ==
    /\ pc = "check"
    /\ loaded_model # "None"
    /\ \E r \in Samples :
          df_infer' = Some([ Temperature |-> r.Temperature,
                             Fuel_Price |-> r.Fuel_Price,
                             Temperature_Fuel_Interaction |-> 0 ])
    /\ Goto("interact")
    /\ UNCHANGED << start_time, prediction, latency, predicted_sales,
                    startVars, regVars, now, cycleVars, rendered >>

\* Lines 55-56: both columns are present, so the interaction is recomputed.
Interact ==
    /\ pc = "interact"
    /\ df_infer' = Some([ Val(df_infer) EXCEPT
          !.Temperature_Fuel_Interaction =
              Interaction(Val(df_infer).Temperature, Val(df_infer).Fuel_Price) ])
    /\ Goto("start")
    /\ UNCHANGED << start_time, prediction, latency, predicted_sales,
                    startVars, regVars, now, cycleVars, rendered >>

\* Line 61.
StartTimer ==
    /\ pc = "start"
    /\ start_time' = Some(now)
    /\ Goto("predict")
    /\ UNCHANGED << df_infer, prediction, latency, predicted_sales,
                    startVars, regVars, now, cycleVars, rendered >>

\* Line 64: predict returns.
PredictReturns ==
    /\ pc = "predict"
    /\ \E p \in Predictions : prediction' = Some(p)
    /\ Goto("end")
    /\ UNCHANGED << df_infer, start_time, latency, predicted_sales,
                    startVars, regVars, now, cycleVars, rendered >>

\* Line 64: predict raises.
PredictRaises ==
    /\ pc = "predict"
    /\ Raise("predict")
    /\ UNCHANGED << started, completed, scenario, startVars, regVars,
                    localVars, now, rendered >>

\* Lines 65-66.
EndTimer ==
    /\ pc = "end"
    /\ latency' = Some(Elapsed(now, Val(start_time)))
    /\ cyc' = [cyc EXCEPT !.latency = latency']
    /\ Goto("setlat")
    /\ UNCHANGED << df_infer, start_time, prediction, predicted_sales,
                    started, completed, scenario, startVars, regVars, now,
                    rendered >>

\* Mutant of SetLatency: the measured time is added to the gauge.
SetLatencyAccumulates ==
    /\ pc = "setlat"
    /\ INFERENCE_LATENCY' = INFERENCE_LATENCY + Val(latency)
    /\ Goto("inc")
    /\ UNCHANGED << INFERENCE_COUNT, INFERENCE_ERROR_COUNT,
                    HIGH_SALES_PREDICTION_COUNT, localVars, startVars, now,
                    cycleVars, rendered >>

\* Line 68.
SetLatency ==
    /\ pc = "setlat"
    /\ INFERENCE_LATENCY' = Val(latency)
    /\ Goto("inc")
    /\ UNCHANGED << INFERENCE_COUNT, INFERENCE_ERROR_COUNT,
                    HIGH_SALES_PREDICTION_COUNT, localVars, startVars, now,
                    cycleVars, rendered >>

\* Mutant of IncCount: line 69 is missing.
IncCountMissing ==
    /\ pc = "inc"
    /\ Goto("extract")
    /\ UNCHANGED << regVars, localVars, startVars, now, cycleVars, rendered >>

\* Line 69.
IncCount ==
    /\ pc = "inc"
    /\ INFERENCE_COUNT' = Inc(INFERENCE_COUNT)
    /\ Goto("extract")
    /\ UNCHANGED << INFERENCE_LATENCY, INFERENCE_ERROR_COUNT,
                    HIGH_SALES_PREDICTION_COUNT, localVars, startVars, now,
                    cycleVars, rendered >>

\* Line 71: prediction[0].
Extract ==
    /\ pc = "extract"
    /\ Len(Val(prediction)) > 0
    /\ predicted_sales' = Some(Val(prediction)[1])
    /\ Goto("format")
    /\ UNCHANGED << df_infer, start_time, prediction, latency, startVars,
                    regVars, now, cycleVars, rendered >>

\* Line 71: prediction[0] of an empty array raises IndexError.
ExtractRaises ==
    /\ pc = "extract"
    /\ Len(Val(prediction)) = 0
    /\ Raise("extract")
    /\ UNCHANGED << started, completed, scenario, startVars, regVars,
                    localVars, now, rendered >>

\* Line 72: f"{predicted_sales:.2f}" of a number.
Format ==
    /\ pc = "format"
    /\ Val(predicted_sales).numeric
    /\ cyc' = [cyc EXCEPT !.predicted = Some(Val(predicted_sales).val)]
    /\ Goto("compare")
    /\ UNCHANGED << started, completed, scenario, startVars, regVars,
                    localVars, now, rendered >>

\* Line 72: the format specification rejects a value that is not a number.
FormatRaises ==
    /\ pc = "format"
    /\ ~Val(predicted_sales).numeric
    /\ Raise("format")
    /\ UNCHANGED << started, completed, scenario, startVars, regVars,
                    localVars, now, rendered >>

\* Line 75 true.
CompareHigh ==
    /\ pc = "compare"
    /\ ExceedsThreshold(Val(predicted_sales).val)
    /\ Goto("inchigh")
    /\ UNCHANGED << startVars, regVars, localVars, now, cycleVars, rendered >>

\* Line 75 false: the try block is over and collect_metrics returns.
CompareLow ==
    /\ pc = "compare"
    /\ ~ExceedsThreshold(Val(predicted_sales).val)
    /\ Return(cyc)
    /\ UNCHANGED << started, startVars, regVars, now, rendered >>

\* Lines 76-77, then collect_metrics returns.
IncHigh ==
    /\ pc = "inchigh"
    /\ HIGH_SALES_PREDICTION_COUNT' = Inc(HIGH_SALES_PREDICTION_COUNT)
    /\ Return(cyc)
    /\ UNCHANGED << INFERENCE_LATENCY, INFERENCE_COUNT, INFERENCE_ERROR_COUNT,
                    started, startVars, now, rendered >>

\* Mutant of Except: the handler also records the time of the failed call in
\* the latency gauge.
ExceptSetsLatency ==
    /\ pc = "except"
    /\ INFERENCE_ERROR_COUNT' = Inc(INFERENCE_ERROR_COUNT)
    /\ INFERENCE_LATENCY' = Elapsed(now, Val(start_time))
    /\ Return(cyc)
    /\ UNCHANGED << INFERENCE_COUNT, HIGH_SALES_PREDICTION_COUNT, started,
                    startVars, now, rendered >>

\* Mutant of Except: the handler takes back the inference counted by the
\* failed call.
ExceptRollsBack ==
    /\ pc = "except"
    /\ INFERENCE_ERROR_COUNT' = Inc(INFERENCE_ERROR_COUNT)
    /\ INFERENCE_COUNT' = cyc.pre.total
    /\ Return(cyc)
    /\ UNCHANGED << INFERENCE_LATENCY, HIGH_SALES_PREDICTION_COUNT, started,
                    startVars, now, rendered >>

\* Lines 79-83: the handler counts the error, logs, and collect_metrics
\* returns.
Except ==
    /\ pc = "except"
    /\ INFERENCE_ERROR_COUNT' = Inc(INFERENCE_ERROR_COUNT)
    /\ Return(cyc)
    /\ UNCHANGED << INFERENCE_LATENCY, INFERENCE_COUNT,
                    HIGH_SALES_PREDICTION_COUNT, started, startVars, now,
                    rendered >>

\* ------------------------------------------------------------ the loop
\* Line 94: time.sleep(5) runs; when it returns, line 92 is reached again.
Sleep ==
    /\ pc = "ret"
    /\ now' = SleepUntil(now)
    /\ Goto("loop")
    /\ UNCHANGED << startVars, regVars, localVars, cycleVars, rendered >>

\* One step of the main thread.
MainStep ==
    \/ LoadOk \/ LoadFail \/ Imported \/ MainServe \/ MainExit
    \/ Call \/ SkipUnavailable \/ Generate \/ Interact \/ StartTimer
    \/ PredictReturns \/ PredictRaises \/ EndTimer \/ SetLatency
    \/ IncCount \/ Extract \/ ExtractRaises \/ Format \/ FormatRaises
    \/ CompareHigh \/ CompareLow \/ IncHigh \/ Except
    \/ Sleep

\* ------------------------------------------------------------- the clock
\* Time passes while collect_metrics runs (at most MaxDur per call); the time
\* a sleep takes passes in Sleep.
Tick ==
    /\ pc \in InCall
    /\ now < MaxDur
    /\ now' = now + 1
    /\ UNCHANGED << pc, startVars, regVars, localVars, cycleVars, rendered,
                    dirty >>

\* A call of predict that outlasts the sleep interval: nothing bounds the time
\* line 64 takes.
Stall ==
    /\ pc = "predict"
    /\ now <= MaxDur
    /\ now' = now + SLEEP_SECONDS + 1
    /\ UNCHANGED << pc, startVars, regVars, localVars, cycleVars, rendered,
                    dirty >>

\* ------------------------------------------------------ the HTTP thread
\* Mutant of Scrape: serving a scrape is counted as an inference.
ScrapeCounts ==
    /\ listening
    /\ rendered' = Some(Render(Registry))
    /\ dirty' = FALSE
    /\ INFERENCE_COUNT' = Inc(INFERENCE_COUNT)
    /\ UNCHANGED << pc, startVars, INFERENCE_LATENCY, INFERENCE_ERROR_COUNT,
                    HIGH_SALES_PREDICTION_COUNT, localVars, now, cycleVars >>

\* Mutant of Scrape: the handler shares a lock with collect_metrics and is
\* served only between calls.
ScrapeWaitsForCycle ==
    /\ listening
    /\ pc \notin InCall
    /\ rendered' = Some(Render(Registry))
    /\ dirty' = FALSE
    /\ UNCHANGED << pc, startVars, regVars, localVars, now, cycleVars >>

\* The thread of start_http_server (line 89) serves a GET: it renders the
\* registry.
Scrape ==
    /\ listening
    /\ rendered' = Some(Render(Registry))
    /\ dirty' = FALSE
    /\ UNCHANGED << pc, startVars, regVars, localVars, now, cycleVars >>

Next ==
    \/ LoadOk \/ LoadFail \/ Imported \/ MainServe \/ MainExit
    \/ Call \/ SkipUnavailable \/ Generate \/ Interact \/ StartTimer
    \/ PredictReturns \/ PredictRaises \/ EndTimer \/ SetLatency
    \/ IncCount \/ Extract \/ ExtractRaises \/ Format \/ FormatRaises
    \/ CompareHigh \/ CompareLow \/ IncHigh \/ Except
    \/ Sleep
    \/ Tick
    \/ Scrape

Spec == Init /\ [][Next]_vars

\* The main thread and the clock alone: a scrape writes only `rendered` and
\* `dirty`, which the main thread never reads.
LoopNext ==
    \/ LoadOk \/ LoadFail \/ Imported \/ MainServe \/ MainExit
    \/ Call \/ SkipUnavailable \/ Generate \/ Interact \/ StartTimer
    \/ PredictReturns \/ PredictRaises \/ EndTimer \/ SetLatency
    \/ IncCount \/ Extract \/ ExtractRaises \/ Format \/ FormatRaises
    \/ CompareHigh \/ CompareLow \/ IncHigh \/ Except
    \/ Sleep
    \/ Tick

\* The main thread is scheduled whenever it can step.
FairLoopSpec == Init /\ [][LoopNext]_vars /\ WF_vars(MainStep)

\* The main thread and the clock, with calls of predict that outlast the
\* sleep interval.
SlowNext ==
    \/ LoadOk \/ LoadFail \/ Imported \/ MainServe \/ MainExit
    \/ Call \/ SkipUnavailable \/ Generate \/ Interact \/ StartTimer
    \/ PredictReturns \/ PredictRaises \/ EndTimer \/ SetLatency
    \/ IncCount \/ Extract \/ ExtractRaises \/ Format \/ FormatRaises
    \/ CompareHigh \/ CompareLow \/ IncHigh \/ Except
    \/ Sleep
    \/ Tick
    \/ Stall

SlowSpec == Init /\ [][SlowNext]_vars

\* ===================================================================
\* Claims
\* ===================================================================

\* The cycle in `cyc` has returned.
CycleDone == ~IsNone(cyc.duration)

\* Value of the i-th series in the last rendered text.
RenderedValue(i) == Val(rendered)[i][3]

\* The latency gauge holds the value set by the cycle that is running.
LatencySetThisCycle ==
    \/ pc \in {"inc", "extract", "format", "compare", "inchigh"}
    \/ pc = "except" /\ cyc.raised \in {"extract", "format"}

\* C1: whenever no call of collect_metrics is running, inference_total +
\* inference_errors_total equals the number of completed cycles.
C1_SumEqualsCompleted ==
    pc \notin InCall =>
        INFERENCE_COUNT + INFERENCE_ERROR_COUNT = completed

\* C2: in the process started through the main entry point, while the model
\* is unavailable the listener is not bound, nothing was rendered, no cycle
\* has started, and the process is loading, at the entry check, or has exited
\* after logging the critical message.
C2_NoModelNoListener ==
    (run_as_main /\ loaded_model = "None") =>
        /\ ~listening
        /\ IsNone(rendered)
        /\ started = 0
        /\ pc \in {"load", "entry", "exited"}
        /\ (pc = "exited") = log_critical

C2_Witness ==
    run_as_main /\ loaded_model = "None" /\ pc = "exited" /\ log_critical

\* C3: in the main loop, every call of collect_metrics, whether predict
\* raises or not, leads back to the head of the loop, and from the head of
\* the loop the next cycle starts (up to the MaxCycles cycles of the model).
C3_LoopKeepsTicking ==
    /\ (run_as_main /\ pc \in InCall) ~> (pc = "loop")
    /\ \A k \in 0 .. (MaxCycles - 1) :
          (pc = "loop" /\ started = k) ~> (started = k + 1)

C3_Witness ==
    /\ run_as_main
    /\ pc = "check"
    /\ started >= 2
    /\ cyc.pre.errors >= 1

\* C4: a cycle that fails inside predict leaves the registry as it was until
\* the handler runs, and ends with inference_errors_total one higher and the
\* latency gauge, inference_total and high_sales_predictions_total as they
\* were; the scenario success(120000), failure, success(160000) ends with
\* inference_total = 2, inference_errors_total = 1,
\* high_sales_predictions_total = 1 and the latency of the third cycle.
C4_PredictFailureFrame ==
    /\ cyc.raised = "predict" =>
          Registry = IF CycleDone
                       THEN [cyc.pre EXCEPT !.errors = @ + 1]
                       ELSE cyc.pre
    /\ (scenario = 2 /\ CycleDone) =>
          /\ INFERENCE_COUNT = 1
          /\ INFERENCE_ERROR_COUNT = 1
          /\ INFERENCE_LATENCY = cyc.pre.latency
    /\ (scenario = 3 /\ started = 3) =>
          /\ INFERENCE_COUNT = 2
          /\ INFERENCE_ERROR_COUNT = 1
          /\ HIGH_SALES_PREDICTION_COUNT = 1
          /\ INFERENCE_LATENCY = Val(cyc.latency)

C4_Witness ==
    scenario = 3 /\ started = 3 /\ INFERENCE_LATENCY # cyc.pre.latency

\* C5: within a cycle high_sales_predictions_total grows by at most 1, and a
\* completed cycle has incremented it exactly when it raised nothing and its
\* predicted value is strictly greater than 150000.
C5_HighSalesIff ==
    /\ HIGH_SALES_PREDICTION_COUNT \in {cyc.pre.high, cyc.pre.high + 1}
    /\ CycleDone =>
          ( (HIGH_SALES_PREDICTION_COUNT = cyc.pre.high + 1)
            <=> /\ cyc.raised = "none"
                /\ ~IsNone(cyc.predicted)
                /\ Val(cyc.predicted) > HIGH_SALES_THRESHOLD )

C5_Witness ==
    /\ CycleDone
    /\ cyc.raised = "none"
    /\ cyc.predicted = Some(HIGH_SALES_THRESHOLD)
    /\ HIGH_SALES_PREDICTION_COUNT = cyc.pre.high
    /\ cyc.pre.high >= 1

\* C6: from the recomputation on, and so when predict is called, the record
\* holds one of the sampled temperature / fuel price pairs and its
\* interaction field is their product, not the placeholder 0.
C6_InteractionAtPredict ==
    pc \in {"start", "predict"} =>
        LET r == Val(df_infer) IN
            /\ [Temperature |-> r.Temperature, Fuel_Price |-> r.Fuel_Price]
                  \in Samples
            /\ r.Temperature_Fuel_Interaction = r.Temperature * r.Fuel_Price
            /\ r.Temperature_Fuel_Interaction # 0

C6_Witness ==
    /\ pc = "predict"
    /\ Val(df_infer).Temperature_Fuel_Interaction = 3600

\* C7 as claimed: when the loop is back at its head after a cycle, exactly 5
\* time units have passed since that cycle started.
C7_StartToStartIsFive ==
    (run_as_main /\ pc = "loop" /\ started >= 1) => now = SLEEP_SECONDS

\* C7 as amended: when the loop is back at its head after a cycle of duration
\* d, d + 5 time units have passed since that cycle started: the idle gap is
\* 5 from the cycle's completion.
C7_GapAfterCompletionIsFive ==
    (run_as_main /\ pc = "loop" /\ started >= 1) =>
        now = Val(cyc.duration) + SLEEP_SECONDS

C7_Witness ==
    /\ run_as_main
    /\ pc = "loop"
    /\ started >= 1
    /\ Val(cyc.duration) > 0

\* C8: no step lowers inference_total, inference_errors_total or
\* high_sales_predictions_total.
C8_CountersNeverDecrease ==
    [][ /\ INFERENCE_COUNT' >= INFERENCE_COUNT
        /\ INFERENCE_ERROR_COUNT' >= INFERENCE_ERROR_COUNT
        /\ HIGH_SALES_PREDICTION_COUNT' >= HIGH_SALES_PREDICTION_COUNT ]_vars

C8_Witness ==
    /\ INFERENCE_COUNT >= 2
    /\ INFERENCE_ERROR_COUNT >= 1
    /\ HIGH_SALES_PREDICTION_COUNT >= 1

C10_NoPartialRender ==
    (~dirty /\ ~IsNone(rendered) /\ LatencySetThisCycle) =>
        RenderedValue(2) = cyc.pre.total + 1

\* C11: the calls of collect_metrics that have started and not returned
\* number 0 or 1, exactly 1 while the main thread is inside the function, also
\* when a call has lasted longer than the 5 units of the sleep.
C11_OneCycleInFlight ==
    /\ started - completed \in {0, 1}
    /\ (started - completed = 1) <=> (pc \in InCall)

C11_Witness ==
    /\ run_as_main
    /\ pc \in InCall
    /\ now > SLEEP_SECONDS
    /\ started = 2
    /\ completed = 1

\* C12: once the listener is bound a scrape can be served in every state,
\* whatever the main thread is doing, and the text served is the rendering of
\* the metric values of that moment.
C12_RenderNeverBlocks ==
    /\ listening => ENABLED Scrape
    /\ (listening /\ ~dirty /\ ~IsNone(rendered)) =>
          Val(rendered) = Render(Registry)

C12_Witness ==
    /\ listening
    /\ pc = "predict"
    /\ now = MaxDur
    /\ ~dirty
    /\ RenderedValue(2) = 1
    /\ RenderedValue(3) = 1

\* C13: the latency computed at line 66 is the clock at that moment minus the
\* clock read at line 61, and a cycle that raised nothing ends with the gauge
\* equal to that latency (not the old value plus it), inference_total one
\* higher and inference_errors_total as it was.
C13_SuccessfulCycle ==
    /\ [][ EndTimer => latency' = Some(now - Val(start_time)) ]_vars
    /\ []( (CycleDone /\ cyc.raised = "none") =>
              /\ INFERENCE_LATENCY = Val(cyc.latency)
              /\ INFERENCE_COUNT = cyc.pre.total + 1
              /\ INFERENCE_ERROR_COUNT = cyc.pre.errors )

C13_Witness ==
    /\ CycleDone
    /\ cyc.raised = "none"
    /\ cyc.pre.latency = 1
    /\ cyc.pre.total >= 1
    /\ INFERENCE_LATENCY = 1

\* No local of collect_metrics is bound: no record was built, no clock was
\* read, predict was not called.
NoLocalBound ==
    /\ IsNone(df_infer)
    /\ IsNone(start_time)
    /\ IsNone(prediction)
    /\ IsNone(latency)
    /\ IsNone(predicted_sales)

\* C14: a call of collect_metrics made while the model is unavailable gets no
\* further than the check of line 32; its one step out of that check returns
\* with inference_errors_total one higher, the other three metrics as they
\* were, and no record built, no clock read and no prediction made.
C14_UnavailableFastFail ==
    /\ []( (loaded_model = "None" /\ pc \in InCall) =>
              /\ pc = "check"
              /\ NoLocalBound
              /\ Registry = cyc.pre )
    /\ []( cyc.raised = "unavailable" =>
              /\ CycleDone
              /\ NoLocalBound
              /\ IsNone(cyc.latency)
              /\ IsNone(cyc.predicted)
              /\ Registry = [cyc.pre EXCEPT !.errors = @ + 1] )
    /\ [][ (pc = "check" /\ loaded_model = "None" /\ pc' # pc) =>
              /\ pc' \notin InCall
              /\ cyc'.raised = "unavailable" ]_vars

C14_Witness ==
    /\ cyc.raised = "unavailable"
    /\ CycleDone
    /\ INFERENCE_ERROR_COUNT = 2
    /\ INFERENCE_COUNT = 0

\* C15: a text rendered while no cycle has yet set the latency gauge shows no
\* number for the latency series.
C15_NoLatencyBeforeSuccess ==
    (~dirty /\ ~IsNone(rendered) /\ INFERENCE_COUNT = 0 /\ pc # "inc") =>
        RenderedValue(1) \notin Nat

\* C16: when prediction[0] or its formatting raises, control is in the
\* handler or the call has returned, and the registry is the one of the
\* call's start with the latency gauge set to this call's latency and
\* inference_total one higher, plus, once the handler has run,
\* inference_errors_total one higher.
C16_LateRaiseKeepsUpdates ==
    cyc.raised \in {"extract", "format"} =>
        /\ pc = "except" \/ CycleDone
        /\ Registry =
              [cyc.pre EXCEPT !.latency = Val(cyc.latency),
                              !.total = @ + 1,
                              !.errors = IF CycleDone THEN @ + 1 ELSE @]

C16_Witness ==
    /\ CycleDone
    /\ cyc.raised = "format"
    /\ INFERENCE_COUNT = 2
    /\ INFERENCE_ERROR_COUNT = 1
    /\ INFERENCE_LATENCY # cyc.pre.latency

\* C17: in the process started through the main entry point no call takes the
\* model-unavailable branch, inference_errors_total changes only in the step
\* of the handler, and it is 0 as long as the model is unavailable.
C17_UnavailableBranchDead ==
    /\ []( run_as_main =>
              /\ cyc.raised # "unavailable"
              /\ loaded_model = "None" => INFERENCE_ERROR_COUNT = 0
              /\ pc \in InCall => loaded_model = "Loaded" )
    /\ [][ (run_as_main /\ INFERENCE_ERROR_COUNT' # INFERENCE_ERROR_COUNT) =>
              /\ pc = "except"
              /\ cyc.raised \in {"predict", "extract", "format"} ]_vars

C17_Witness ==
    /\ run_as_main
    /\ INFERENCE_ERROR_COUNT = 2
    /\ cyc.raised = "extract"

\* C18: in every state high_sales_predictions_total is at most
\* inference_total.
C18_HighAtMostTotal ==
    HIGH_SALES_PREDICTION_COUNT <= INFERENCE_COUNT

C18_Witness ==
    /\ HIGH_SALES_PREDICTION_COUNT = INFERENCE_COUNT
    /\ HIGH_SALES_PREDICTION_COUNT >= 2

====
